---- MODULE Spec2Model ----
(***************************************************************************)
(* Model of the PCA9685 PWM driver (src/src/PCA9685.cpp).                  *)
(*                                                                         *)
(* The driver is single threaded and blocking.  Every public operation is  *)
(* a sequence of bus operations on the TwoWire transport; the transport    *)
(* and the chip are external, so the end status of every transmission, the *)
(* number of bytes available after a read request and the byte read are    *)
(* inputs chosen by the environment.  `log' records, for the public call   *)
(* in progress (or the last one finished), every transport operation and   *)
(* every delay in the order the code issues them.  `autoInc' is the        *)
(* auto-increment bit (0x20) of the last value an acknowledged             *)
(* transmission of the driver has written to the MODE1 register (-1 before *)
(* the first one); unlike the log it is kept across calls.                 *)
(*                                                                         *)
(* Float arithmetic of setPWMFreq is modelled with exact rationals         *)
(* (numerator/denominator records).  For integer frequencies 1..10000 Hz   *)
(* the 32-bit float evaluation of lines 74-84 yields the same floor as the *)
(* exact value, so no rounding step is modelled.                           *)
(***************************************************************************)
EXTENDS Integers, Sequences, FiniteSets, TLC

VARIABLES pc, op, arg, log, pwmCalls, ret, oldmode, prescale, autoInc

vars == <<pc, op, arg, log, pwmCalls, ret, oldmode, prescale, autoInc>>

----------------------------------------------------------------------------
(* Bounds of the model *)

\* transmission end statuses are 0 (success) .. MaxStatus (error codes)
MaxStatus == 2
\* number of duty values above 4095 sampled at each end of the 16-bit range
MaxOver == 3

----------------------------------------------------------------------------
(* Registers (PCA9685.h) and the default bus address *)

PCA9685_MODE1 == 0
PCA9685_PRESCALE == 254
LED0_ON_L == 6
DefaultAddr == 64

Byte == 0..255
Status == 0..MaxStatus
Channels == 0..15

U8(x) == x % 256

\* bitwise operations on bytes, bit by bit
RECURSIVE BitAnd(_, _, _)
BitAnd(a, b, n) ==
  IF n = 0 THEN 0
  ELSE 2 * BitAnd(a \div 2, b \div 2, n - 1)
       + (IF a % 2 = 1 /\ b % 2 = 1 THEN 1 ELSE 0)

RECURSIVE BitOr(_, _, _)
BitOr(a, b, n) ==
  IF n = 0 THEN 0
  ELSE 2 * BitOr(a \div 2, b \div 2, n - 1)
       + (IF a % 2 = 1 \/ b % 2 = 1 THEN 1 ELSE 0)

And8(a, b) == BitAnd(a, b, 8)
Or8(a, b) == BitOr(a, b, 8)

----------------------------------------------------------------------------
(* Transport events, all of one shape:                                     *)
(*   k = "tx"      a transmission ended with a stop; bytes sent, n = status *)
(*   k = "txhold"  a transmission ended without stop (endTransmission(false)) *)
(*   k = "req"     requestFrom of `cnt' bytes; n = bytes then available     *)
(*   k = "read"    one byte read; bytes = <<the byte>>                      *)
(*   k = "delay"   delay(n) milliseconds                                    *)

Tx(a, bs, st) == [k |-> "tx", to |-> a, bytes |-> bs, n |-> st]
TxHold(a, bs, st) == [k |-> "txhold", to |-> a, bytes |-> bs, n |-> st]
Req(a, avail) == [k |-> "req", to |-> a, bytes |-> <<>>, n |-> avail]
Rd(v) == [k |-> "read", to |-> 0, bytes |-> <<v>>, n |-> 0]
Delay(ms) == [k |-> "delay", to |-> 0, bytes |-> <<>>, n |-> ms]

NoArg == [freq |-> 0, num |-> 0, on |-> 0, off |-> 0, val |-> 0, invert |-> FALSE]

RetOf(b) == IF b THEN "true" ELSE "false"

----------------------------------------------------------------------------
(* write8: one transmission of <<addr, d>>; true iff the end status is 0 *)

write8(l, addr, d, st) ==
  [log |-> Append(l, Tx(DefaultAddr, <<U8(addr), U8(d)>>, st)),
   ok  |-> (st = 0)]

(* The register an acknowledged transmission <<a, d1, ..., dn>> writes with *)
(* d_j is a + j - 1 (consecutive registers).  Mode1Written gives the last  *)
(* value written to MODE1 once the events l[i..] have happened after m, and *)
(* AutoIncAfter the auto-increment bit after the events added to the log.  *)

Mode1OfTx(m, e) ==
  IF e.k = "tx" /\ e.n = 0
        /\ \E j \in 2 .. Len(e.bytes) : U8(e.bytes[1] + j - 2) = PCA9685_MODE1
  THEN e.bytes[CHOOSE j \in 2 .. Len(e.bytes) :
                  /\ U8(e.bytes[1] + j - 2) = PCA9685_MODE1
                  /\ \A h \in 2 .. Len(e.bytes) :
                       U8(e.bytes[1] + h - 2) = PCA9685_MODE1 => h <= j]
  ELSE m

RECURSIVE Mode1Written(_, _, _)
Mode1Written(m, l, i) ==
  IF i > Len(l) THEN m ELSE Mode1Written(Mode1OfTx(m, l[i]), l, i + 1)

AutoIncAfter(ai, l0, l1) ==
  LET m == Mode1Written(-1, l1, Len(l0) + 1) IN
  IF m = -1 THEN ai ELSE (m \div 32) % 2

(* read8: address phase without stop, then a one byte request.  `out' is   *)
(* the caller's output location; it is assigned only when a byte is read.  *)

\* variant: the byte is read before the available count is looked at; a read
\* with nothing available yields -1, stored as 255
read8_readFirst(l, addr, out, st, avail, v) ==
  LET l1 == Append(l, TxHold(DefaultAddr, <<U8(addr)>>, st)) IN
  IF st # 0 THEN [log |-> l1, ok |-> FALSE, out |-> out]
  ELSE LET l2 == Append(l1, Req(DefaultAddr, avail)) IN
       IF avail = 0 THEN [log |-> l2, ok |-> FALSE, out |-> 255]
       ELSE [log |-> Append(l2, Rd(v)), ok |-> TRUE, out |-> v]

read8(l, addr, out, st, avail, v) ==
  LET l1 == Append(l, TxHold(DefaultAddr, <<U8(addr)>>, st)) IN
  IF st # 0 THEN [log |-> l1, ok |-> FALSE, out |-> out]
  ELSE LET l2 == Append(l1, Req(DefaultAddr, avail)) IN
       IF avail = 0 THEN [log |-> l2, ok |-> FALSE, out |-> out]
       ELSE [log |-> Append(l2, Rd(v)), ok |-> TRUE, out |-> v]

(* the five bytes setPWM sends *)

\* variant: the high bytes keep only the 12-bit tick, dropping bit 12
setPWMBytes_high4(num, on, off) ==
  << U8(LED0_ON_L + 4 * num), U8(on), U8(on \div 256) % 16,
     U8(off), U8(off \div 256) % 16 >>

setPWMBytes(num, on, off) ==
  << U8(LED0_ON_L + 4 * num), U8(on), U8(on \div 256), U8(off), U8(off \div 256) >>

(* the (on, off) pair setPin computes from val and invert *)

Min(a, b) == IF a < b THEN a ELSE b

\* variant: the value is truncated to 12 bits instead of being clamped
ClampVal_wrap(val) == val % 4096

\* variant: the value is not clamped at all
ClampVal_none(val) == val

ClampVal(val) == Min(val, 4095)

\* variant: the non-inverted branch has no special value for 0
PinOnOff_noOff(v, invert) ==
  LET val == ClampVal(v) IN
  IF invert
  THEN IF val = 0 THEN [on |-> 4096, off |-> 0]
       ELSE IF val = 4095 THEN [on |-> 0, off |-> 4096]
       ELSE [on |-> 0, off |-> 4095 - val]
  ELSE IF val = 4095 THEN [on |-> 4096, off |-> 0]
       ELSE [on |-> 0, off |-> val]

\* variant: the inverted branch reflects around 4096 instead of 4095
PinOnOff_inv4096(v, invert) ==
  LET val == ClampVal(v) IN
  IF invert
  THEN IF val = 0 THEN [on |-> 4096, off |-> 0]
       ELSE IF val = 4095 THEN [on |-> 0, off |-> 4096]
       ELSE [on |-> 0, off |-> 4096 - val]
  ELSE IF val = 4095 THEN [on |-> 4096, off |-> 0]
       ELSE IF val = 0 THEN [on |-> 0, off |-> 4096]
       ELSE [on |-> 0, off |-> val]

\* variant: the inverted branch tests the special values in the order of the
\* non-inverted one, so 4095 is fully on and 0 fully off there too
PinOnOff_invSame(v, invert) ==
  LET val == ClampVal(v) IN
  IF invert
  THEN IF val = 4095 THEN [on |-> 4096, off |-> 0]
       ELSE IF val = 0 THEN [on |-> 0, off |-> 4096]
       ELSE [on |-> 0, off |-> 4095 - val]
  ELSE IF val = 4095 THEN [on |-> 4096, off |-> 0]
       ELSE IF val = 0 THEN [on |-> 0, off |-> 4096]
       ELSE [on |-> 0, off |-> val]

PinOnOff(v, invert) ==
  LET val == ClampVal(v) IN
  IF invert
  THEN IF val = 0 THEN [on |-> 4096, off |-> 0]
       ELSE IF val = 4095 THEN [on |-> 0, off |-> 4096]
       ELSE [on |-> 0, off |-> 4095 - val]
  ELSE IF val = 4095 THEN [on |-> 4096, off |-> 0]
       ELSE IF val = 0 THEN [on |-> 0, off |-> 4096]
       ELSE [on |-> 0, off |-> val]

----------------------------------------------------------------------------
(* prescale computation of setPWMFreq, lines 74-84, on exact rationals *)

Rat(n, d) == [n |-> n, d |-> d]
RatDiv(a, b) == Rat(a.n * b.d, a.d * b.n)
RatSub(a, b) == Rat(a.n * b.d - b.n * a.d, a.d * b.d)
RatAdd(a, b) == Rat(a.n * b.d + b.n * a.d, a.d * b.d)
Floor(a) == a.n \div a.d

\* freq *= 0.9
CorrectedFreq(freq) == Rat(9 * freq, 10)

\* variant: the final "-= 1" is missing
PrescaleVal_noMinus1(freq) ==
  RatDiv(RatDiv(Rat(25000000, 1), Rat(4096, 1)), CorrectedFreq(freq))

\* prescaleval = 25000000; /= 4096; /= freq; -= 1
PrescaleVal(freq) ==
  RatSub(RatDiv(RatDiv(Rat(25000000, 1), Rat(4096, 1)), CorrectedFreq(freq)),
         Rat(1, 1))

\* floor(prescaleval + 0.5)
PrescaleFloor(freq) == Floor(RatAdd(PrescaleVal(freq), Rat(1, 2)))

\* conversion of the floored value to uint8_t: exact when it fits; outside
\* 0..255 the conversion is undefined, and builds either wrap modulo 256 or
\* saturate
ToUint8(v) ==
  IF v \in Byte THEN {v}
  ELSE {v % 256, IF v > 255 THEN 255 ELSE 0}

PrescaleBytes(freq) == ToUint8(PrescaleFloor(freq))

----------------------------------------------------------------------------
(* Inputs of the public operations *)

\* target frequencies passed to setPWMFreq (1000 is the default of begin)
Freqs == {24, 50, 1000, 1600}
\* arguments of direct setPWM calls
PWMNums == {0, 15}
PWMTicks == {0, 2048, 4096}
\* tick values of the setPWM byte check: both ends of the range and the
\* values around the low byte's carry
TickSamples == {0, 1, 255, 256, 257, 2048, 4095, 4096}
AllTicks == 0 .. 4096
\* arguments of setPin calls interleaved with the other operations
PinNums == {0, 15}
PinSamples == {0, 1, 4094, 4095, 4096, 65535}
\* duty values of the exhaustive setPin check: all of 0..4095 and values
\* above 4095 from both ends of the uint16_t range
PinVals == (0 .. 4095 + MaxOver) \cup (65536 - MaxOver .. 65535)

----------------------------------------------------------------------------
(* State after construction: no bus traffic, no call in progress *)

Init ==
  /\ pc = "idle"
  /\ op = "none"
  /\ arg = NoArg
  /\ log = <<>>
  /\ pwmCalls = <<>>
  /\ ret = "none"
  /\ oldmode = 0
  /\ prescale = 0
  /\ autoInc = -1

\* a public operation is entered: the record of the previous call is dropped
Enter(o, a, entry) ==
  /\ pc = "idle"
  /\ pc' = entry
  /\ op' = o
  /\ arg' = a
  /\ log' = <<>>
  /\ pwmCalls' = <<>>
  /\ ret' = "none"
  /\ oldmode' = 0
  /\ prescale' = 0
  /\ autoInc' = autoInc

\* the public operation returns b
Return(b) ==
  /\ pc' = "idle"
  /\ ret' = RetOf(b)

call_begin == Enter("begin", NoArg, "reset")

call_reset == Enter("reset", NoArg, "reset")

call_setPWMFreq ==
  \E f \in Freqs : Enter("setPWMFreq", [NoArg EXCEPT !.freq = f], "setPWMFreq")

call_setPWM ==
  \E num \in PWMNums, on \in PWMTicks, off \in PWMTicks :
    Enter("setPWM", [NoArg EXCEPT !.num = num, !.on = on, !.off = off], "setPWM")

call_setPin ==
  \E num \in PinNums, val \in PinSamples, invert \in BOOLEAN :
    Enter("setPin", [NoArg EXCEPT !.num = num, !.val = val, !.invert = invert],
          "setPin")

----------------------------------------------------------------------------
(* reset(), lines 54-60; called directly or as the first step of begin(),  *)
(* lines 40-46, which goes on to setPWMFreq(1000) when reset() succeeds    *)

\* variant: the delay is made before the result of the write is looked at
reset_delayFirst ==
  /\ pc = "reset"
  /\ \E st \in Status :
       LET w == write8(log, PCA9685_MODE1, 128, st) IN
       /\ log' = Append(w.log, Delay(10))
       /\ IF ~w.ok
          THEN /\ Return(FALSE)
               /\ UNCHANGED arg
          ELSE IF op = "begin"
               THEN /\ pc' = "setPWMFreq"
                    /\ arg' = [arg EXCEPT !.freq = 1000]
                    /\ UNCHANGED ret
               ELSE /\ Return(TRUE)
                    /\ UNCHANGED arg
  /\ UNCHANGED <<op, pwmCalls, oldmode, prescale>>
  /\ autoInc' = AutoIncAfter(autoInc, log, log')

\* variant: begin goes on to setPWMFreq whatever reset returned
reset_beginIgnores ==
  /\ pc = "reset"
  /\ \E st \in Status :
       LET w == write8(log, PCA9685_MODE1, 128, st) IN
       /\ log' = IF w.ok THEN Append(w.log, Delay(10)) ELSE w.log
       /\ IF op = "begin"
          THEN /\ pc' = "setPWMFreq"
               /\ arg' = [arg EXCEPT !.freq = 1000]
               /\ UNCHANGED ret
          ELSE /\ Return(w.ok)
               /\ UNCHANGED arg
  /\ UNCHANGED <<op, pwmCalls, oldmode, prescale>>
  /\ autoInc' = AutoIncAfter(autoInc, log, log')

reset ==
  /\ pc = "reset"
  /\ \E st \in Status :
       LET w == write8(log, PCA9685_MODE1, 128, st) IN
       IF ~w.ok
       THEN /\ log' = w.log
            /\ Return(FALSE)
            /\ UNCHANGED arg
       ELSE /\ log' = Append(w.log, Delay(10))
            /\ IF op = "begin"
               THEN /\ pc' = "setPWMFreq"
                    /\ arg' = [arg EXCEPT !.freq = 1000]
                    /\ UNCHANGED ret
               ELSE /\ Return(TRUE)
                    /\ UNCHANGED arg
  /\ UNCHANGED <<op, pwmCalls, oldmode, prescale>>
  /\ autoInc' = AutoIncAfter(autoInc, log, log')

----------------------------------------------------------------------------
(* setPWMFreq(freq), lines 68-115, one step per register operation *)

\* variant: the sleep bit is not set
newmode_noSleep(old) == And8(old, 127)

\* variant: the restart bit is not masked out
newmode_noMask(old) == Or8(old, 16)

\* line 93: newmode = (oldmode & 0x7F) | 0x10
newmode(old) == Or8(And8(old, 127), 16)

\* variant: the result of read8 is not looked at
setPWMFreq_read8_unchecked ==
  /\ pc = "setPWMFreq"
  /\ \E p \in PrescaleBytes(arg.freq), st \in Status, avail \in {0, 1}, v \in Byte :
       LET r == read8(log, PCA9685_MODE1, 0, st, avail, v) IN
       /\ prescale' = p
       /\ log' = r.log
       /\ oldmode' = r.out
       /\ pc' = "setPWMFreq_sleep"
       /\ UNCHANGED ret
  /\ UNCHANGED <<op, arg, pwmCalls>>
  /\ autoInc' = AutoIncAfter(autoInc, log, log')

\* lines 74-92: prescale computation and the read of MODE1 into oldmode
setPWMFreq_read8 ==
  /\ pc = "setPWMFreq"
  /\ \E p \in PrescaleBytes(arg.freq), st \in Status, avail \in {0, 1}, v \in Byte :
       LET r == read8(log, PCA9685_MODE1, 0, st, avail, v) IN
       /\ prescale' = p
       /\ log' = r.log
       /\ oldmode' = r.out
       /\ IF r.ok THEN pc' = "setPWMFreq_sleep" /\ UNCHANGED ret
                  ELSE Return(FALSE)
  /\ UNCHANGED <<op, arg, pwmCalls>>
  /\ autoInc' = AutoIncAfter(autoInc, log, log')

\* lines 93-96: go to sleep
setPWMFreq_sleep ==
  /\ pc = "setPWMFreq_sleep"
  /\ \E st \in Status :
       LET w == write8(log, PCA9685_MODE1, newmode(oldmode), st) IN
       /\ log' = w.log
       /\ IF w.ok THEN pc' = "setPWMFreq_prescale" /\ UNCHANGED ret
                  ELSE Return(FALSE)
  /\ UNCHANGED <<op, arg, pwmCalls, oldmode, prescale>>
  /\ autoInc' = AutoIncAfter(autoInc, log, log')

\* variant: the result of the prescale write is not looked at
setPWMFreq_prescale_unchecked ==
  /\ pc = "setPWMFreq_prescale"
  /\ \E st \in Status :
       LET w == write8(log, PCA9685_PRESCALE, prescale, st) IN
       /\ log' = w.log
       /\ pc' = "setPWMFreq_restore"
       /\ UNCHANGED ret
  /\ UNCHANGED <<op, arg, pwmCalls, oldmode, prescale>>
  /\ autoInc' = AutoIncAfter(autoInc, log, log')

\* variant: a failed prescale write is rolled back by writing oldmode to MODE1
setPWMFreq_prescale_rollback ==
  /\ pc = "setPWMFreq_prescale"
  /\ \E st \in Status, st2 \in Status :
       LET w == write8(log, PCA9685_PRESCALE, prescale, st) IN
       IF w.ok
       THEN /\ log' = w.log
            /\ pc' = "setPWMFreq_restore"
            /\ UNCHANGED ret
       ELSE /\ log' = write8(w.log, PCA9685_MODE1, oldmode, st2).log
            /\ Return(FALSE)
  /\ UNCHANGED <<op, arg, pwmCalls, oldmode, prescale>>
  /\ autoInc' = AutoIncAfter(autoInc, log, log')

\* lines 97-99: set the prescaler
setPWMFreq_prescale ==
  /\ pc = "setPWMFreq_prescale"
  /\ \E st \in Status :
       LET w == write8(log, PCA9685_PRESCALE, prescale, st) IN
       /\ log' = w.log
       /\ IF w.ok THEN pc' = "setPWMFreq_restore" /\ UNCHANGED ret
                  ELSE Return(FALSE)
  /\ UNCHANGED <<op, arg, pwmCalls, oldmode, prescale>>
  /\ autoInc' = AutoIncAfter(autoInc, log, log')

\* lines 100-103: write oldmode back, then delay(5)
setPWMFreq_restore ==
  /\ pc = "setPWMFreq_restore"
  /\ \E st \in Status :
       LET w == write8(log, PCA9685_MODE1, oldmode, st) IN
       IF w.ok
       THEN /\ log' = Append(w.log, Delay(5))
            /\ pc' = "setPWMFreq_autoinc"
            /\ UNCHANGED ret
       ELSE /\ log' = w.log
            /\ Return(FALSE)
  /\ UNCHANGED <<op, arg, pwmCalls, oldmode, prescale>>
  /\ autoInc' = AutoIncAfter(autoInc, log, log')

\* variant: the last write sets the restart bit only (0x80 instead of 0xa0)
setPWMFreq_autoinc_noAI ==
  /\ pc = "setPWMFreq_autoinc"
  /\ \E st \in Status :
       LET w == write8(log, PCA9685_MODE1, Or8(oldmode, 128), st) IN
       /\ log' = w.log
       /\ Return(w.ok)
  /\ UNCHANGED <<op, arg, pwmCalls, oldmode, prescale>>
  /\ autoInc' = AutoIncAfter(autoInc, log, log')

\* lines 104-114: turn on auto increment
setPWMFreq_autoinc ==
  /\ pc = "setPWMFreq_autoinc"
  /\ \E st \in Status :
       LET w == write8(log, PCA9685_MODE1, Or8(oldmode, 160), st) IN
       /\ log' = w.log
       /\ Return(w.ok)
  /\ UNCHANGED <<op, arg, pwmCalls, oldmode, prescale>>
  /\ autoInc' = AutoIncAfter(autoInc, log, log')

----------------------------------------------------------------------------
(* setPWM(num, on, off), lines 125-137: one transmission of five bytes *)

setPWMBody(num, on, off) ==
  \E st \in Status :
    /\ pwmCalls' = Append(pwmCalls, [num |-> num, on |-> on, off |-> off])
    /\ log' = Append(log, Tx(DefaultAddr, setPWMBytes(num, on, off), st))
    /\ Return(st = 0)

setPWM ==
  /\ pc = "setPWM"
  /\ setPWMBody(arg.num, arg.on, arg.off)
  /\ UNCHANGED <<op, arg, oldmode, prescale>>
  /\ autoInc' = AutoIncAfter(autoInc, log, log')

(* setPin(num, val, invert), lines 147-176 *)

setPin ==
  /\ pc = "setPin"
  /\ LET p == PinOnOff(arg.val, arg.invert) IN setPWMBody(arg.num, p.on, p.off)
  /\ UNCHANGED <<op, arg, oldmode, prescale>>
  /\ autoInc' = AutoIncAfter(autoInc, log, log')

----------------------------------------------------------------------------
Next ==
  \/ call_begin
  \/ call_reset
  \/ call_setPWMFreq
  \/ call_setPWM
  \/ call_setPin
  \/ reset
  \/ setPWMFreq_read8
  \/ setPWMFreq_sleep
  \/ setPWMFreq_prescale
  \/ setPWMFreq_restore
  \/ setPWMFreq_autoinc
  \/ setPWM
  \/ setPin

Spec == Init /\ [][Next]_vars

(* setPin as a function of its arguments: every channel, every duty value  *)
(* of PinVals and both values of invert, each called once                  *)

InitPin ==
  /\ pc = "setPin"
  /\ op = "setPin"
  /\ arg \in { [NoArg EXCEPT !.num = num, !.val = val, !.invert = invert] :
                 num \in Channels, val \in PinVals, invert \in BOOLEAN }
  /\ log = <<>>
  /\ pwmCalls = <<>>
  /\ ret = "none"
  /\ oldmode = 0
  /\ prescale = 0
  /\ autoInc = -1

NextPin == setPin

SpecPin == InitPin /\ [][NextPin]_vars

(* setPWM as a function of its arguments: every channel with the sampled   *)
(* ticks, and the first and last channel with every tick value for on and  *)
(* for off, each called once                                               *)

PWMArgs ==
  (Channels \X TickSamples \X TickSamples)
    \cup (PWMNums \X AllTicks \X TickSamples)
    \cup (PWMNums \X TickSamples \X AllTicks)

InitPWM ==
  /\ pc = "setPWM"
  /\ op = "setPWM"
  /\ arg \in { [NoArg EXCEPT !.num = a[1], !.on = a[2], !.off = a[3]] : a \in PWMArgs }
  /\ log = <<>>
  /\ pwmCalls = <<>>
  /\ ret = "none"
  /\ oldmode = 0
  /\ prescale = 0
  /\ autoInc = -1

NextPWM == setPWM

SpecPWM == InitPWM /\ [][NextPWM]_vars

TypeOK ==
  /\ pc \in {"idle", "reset", "setPWMFreq", "setPWMFreq_sleep", "setPWMFreq_prescale",
             "setPWMFreq_restore", "setPWMFreq_autoinc", "setPWM", "setPin"}
  /\ ret \in {"none", "true", "false"}
  /\ oldmode \in Byte
  /\ prescale \in Byte
  /\ autoInc \in {-1, 0, 1}

----------------------------------------------------------------------------
(* Properties of setPin *)

\* a setPin call with arguments `arg' has returned
PinDone == pc = "idle" /\ op = "setPin"

\* the setPWM calls and the transmissions a finished setPin has made are
\* exactly one call (num, on, off) and the one transmission of that call
OnePWMCall(num, on, off) ==
  /\ pwmCalls = << [num |-> num, on |-> on, off |-> off] >>
  /\ Len(log) = 1
  /\ log[1].k = "tx"

\* C1: for every channel 0..15 and duty value 0..4095 with invert = false,
\* setPin makes exactly one setPWM call, with (on, off) = (0, dutyValue),
\* except (0, 4096) for dutyValue 0 and (4096, 0) for dutyValue 4095.
C1_SetPinPlain ==
  (PinDone /\ ~arg.invert /\ arg.val \in 0..4095 /\ arg.num \in Channels) =>
    IF arg.val = 0 THEN OnePWMCall(arg.num, 0, 4096)
    ELSE IF arg.val = 4095 THEN OnePWMCall(arg.num, 4096, 0)
    ELSE OnePWMCall(arg.num, 0, arg.val)

C1_Witness ==
  /\ PinDone /\ ~arg.invert /\ arg.val = 0 /\ arg.num = 15
  /\ pwmCalls = << [num |-> 15, on |-> 0, off |-> 4096] >>

\* C2: for every channel 0..15 and duty value 0..4095 with invert = true,
\* setPin makes exactly one setPWM call, with (on, off) = (0, 4095 - dutyValue),
\* except (4096, 0) for dutyValue 0 and (0, 4096) for dutyValue 4095.
C2_SetPinInverted ==
  (PinDone /\ arg.invert /\ arg.val \in 0..4095 /\ arg.num \in Channels) =>
    IF arg.val = 0 THEN OnePWMCall(arg.num, 4096, 0)
    ELSE IF arg.val = 4095 THEN OnePWMCall(arg.num, 0, 4096)
    ELSE OnePWMCall(arg.num, 0, 4095 - arg.val)

C2_Witness ==
  /\ PinDone /\ arg.invert /\ arg.val = 1000 /\ arg.num = 3
  /\ pwmCalls = << [num |-> 3, on |-> 0, off |-> 3095] >>

\* C3: for every 16-bit duty value above 4095 and both values of invert,
\* setPin makes the setPWM call it makes for 4095 (fully on when not
\* inverted, fully off when inverted), and its result depends on the end
\* status of that transmission alone.
C3_SetPinClamped ==
  (PinDone /\ arg.val > 4095) =>
    /\ IF arg.invert THEN OnePWMCall(arg.num, 0, 4096)
                     ELSE OnePWMCall(arg.num, 4096, 0)
    /\ ret = RetOf(log[1].n = 0)

C3_Witness ==
  /\ PinDone /\ arg.val = 65535 /\ ~arg.invert /\ ret = "true"
  /\ pwmCalls = << [num |-> arg.num, on |-> 4096, off |-> 0] >>

----------------------------------------------------------------------------
(* Properties of reset, setPWMFreq and begin *)

Bit(v, i) == (v \div (2 ^ i)) % 2

\* the call in progress (or finished) runs setPWMFreq
InFreq == op \in {"setPWMFreq", "begin"}

\* the part of the log made by setPWMFreq: begin's log starts with the
\* write and the delay of reset
FreqLog == IF op = "begin" THEN SubSeq(log, 3, Len(log)) ELSE log

\* the transport operations of a log, delays left out
BusOps(l) == SelectSeq(l, LAMBDA e : e.k # "delay")

\* e is a register write (address, value) to reg
IsWrite(e, reg) == e.k = "tx" /\ Len(e.bytes) = 2 /\ e.bytes[1] = reg

\* no bus operation of l failed
AllOk(l) ==
  \A i \in DOMAIN l :
    /\ l[i].k \in {"tx", "txhold"} => l[i].n = 0
    /\ l[i].k = "req" => l[i].n >= 1

\* C4: a setPWMFreq in which no bus operation fails issues exactly: read
\* MODE1 (yielding old), write MODE1 with the sleep bit set, write PRESCALE
\* with the computed prescale, write MODE1 = old, write MODE1 = old | 0xA0,
\* in this order; and at every moment a PRESCALE write is the second
\* register write of setPWMFreq, directly after the successful write of MODE1
\* with the sleep bit set, every other register write coming after it.
C4_FreqSequence ==
  /\ (pc = "idle" /\ InFreq /\ AllOk(log) /\ FreqLog # <<>>) =>
       LET r == BusOps(FreqLog) IN
       /\ Len(r) = 7
       /\ r[1] = TxHold(DefaultAddr, <<PCA9685_MODE1>>, 0)
       /\ r[2] = Req(DefaultAddr, 1)
       /\ r[3].k = "read"
       /\ LET old == r[3].bytes[1] IN
          /\ IsWrite(r[4], PCA9685_MODE1) /\ Bit(r[4].bytes[2], 4) = 1
          /\ r[5] = Tx(DefaultAddr, <<PCA9685_PRESCALE, prescale>>, 0)
          /\ r[6] = Tx(DefaultAddr, <<PCA9685_MODE1, old>>, 0)
          /\ r[7] = Tx(DefaultAddr,
                       <<PCA9685_MODE1,
                         old + 128 * (1 - Bit(old, 7)) + 32 * (1 - Bit(old, 5))>>, 0)
  /\ \A i \in DOMAIN FreqLog :
       IsWrite(FreqLog[i], PCA9685_PRESCALE) =>
         /\ i = 5
         /\ IsWrite(FreqLog[4], PCA9685_MODE1)
         /\ Bit(FreqLog[4].bytes[2], 4) = 1
         /\ FreqLog[4].n = 0
         /\ \A j \in 1 .. 3 : FreqLog[j].k # "tx"

C4_Witness ==
  /\ pc = "idle" /\ op = "setPWMFreq" /\ ret = "true" /\ AllOk(log)
  /\ Len(BusOps(log)) = 7
  /\ oldmode = 1
  /\ log[Len(log)] = Tx(DefaultAddr, <<PCA9685_MODE1, 161>>, 0)

\* C5 as stated: setPWMFreq(1000), and so begin(), writes 7 to PRESCALE.
C5_Original ==
  \A i \in DOMAIN log :
    (InFreq /\ arg.freq = 1000 /\ IsWrite(log[i], PCA9685_PRESCALE)) =>
      log[i].bytes[2] = 7

\* C5 (amended): setPWMFreq(1000), and so begin(), which calls setPWMFreq
\* with 1000, writes the value 6 to the PRESCALE register.
C5_Prescale1000 ==
  /\ (op = "begin" /\ FreqLog # <<>>) => arg.freq = 1000
  /\ \A i \in DOMAIN log :
       (InFreq /\ arg.freq = 1000 /\ IsWrite(log[i], PCA9685_PRESCALE)) =>
         log[i].bytes[2] = 6

C5_Witness ==
  /\ pc = "idle" /\ op = "begin" /\ ret = "true"
  /\ \E i \in DOMAIN log : log[i] = Tx(DefaultAddr, <<PCA9685_PRESCALE, 6>>, 0)

\* the value of the last successful write to MODE1 in l (l has one)
Mode1Writes(l) == { i \in DOMAIN l : IsWrite(l[i], PCA9685_MODE1) /\ l[i].n = 0 }
LastMode1(l) ==
  LET m == CHOOSE i \in Mode1Writes(l) : \A j \in Mode1Writes(l) : j <= i
  IN l[m].bytes[2]

\* C6: after setPWMFreq returns success the last value written to MODE1 has
\* the sleep bit (bit 4) clear, whatever value the initial read returned.
C6_AwakeAfterFreq ==
  (pc = "idle" /\ InFreq /\ ret = "true") => Bit(LastMode1(log), 4) = 0

\* C7: reset() issues one register write, 0x80 to MODE1; when the write
\* succeeds it delays 10 and returns true; when it fails it returns false
\* with no delay and no further bus operation.
C7_Reset ==
  /\ (pc = "reset" /\ op = "reset") => log = <<>>
  /\ (pc = "idle" /\ op = "reset") =>
       \/ /\ ret = "true"
          /\ log = << Tx(DefaultAddr, <<PCA9685_MODE1, 128>>, 0), Delay(10) >>
       \/ /\ ret = "false"
          /\ Len(log) = 1
          /\ IsWrite(log[1], PCA9685_MODE1)
          /\ log[1].bytes[2] = 128
          /\ log[1].n # 0

C7_Witness ==
  /\ pc = "idle" /\ op = "reset" /\ ret = "false"
  /\ Len(log) = 1 /\ log[1].n # 0

\* C8: in begin, reset and setPWMFreq, a register write that ends with a
\* nonzero status is the last event of the call, and the call returns false.
C8_FailStops ==
  op \in {"begin", "reset", "setPWMFreq"} =>
    \A i \in DOMAIN log :
      (log[i].k = "tx" /\ log[i].n # 0) =>
        /\ i = Len(log)
        /\ pc = "idle"
        /\ ret = "false"

C8_Witness ==
  /\ op = "begin" /\ pc = "idle" /\ ret = "false"
  /\ IsWrite(log[Len(log)], PCA9685_PRESCALE)
  /\ log[Len(log)].n # 0

\* C9: read8 returns false and leaves the output location (oldmode, 0 before
\* the call) unchanged when the address phase is not acknowledged, in which
\* case no read request is made, and when no byte is available after the
\* request; the output location is written only when read8 returns true,
\* with the byte read.
C9_Read8 ==
  InFreq =>
    /\ \A i \in DOMAIN log :
         (log[i].k = "txhold" /\ log[i].n # 0) =>
           /\ i = Len(log) /\ pc = "idle" /\ ret = "false"
           /\ oldmode = 0
           /\ \A j \in DOMAIN log : log[j].k \notin {"req", "read"}
    /\ \A i \in DOMAIN log :
         (log[i].k = "req" /\ log[i].n = 0) =>
           /\ i = Len(log) /\ pc = "idle" /\ ret = "false"
           /\ oldmode = 0
           /\ \A j \in DOMAIN log : log[j].k # "read"
    /\ oldmode # 0 =>
         \E i \in DOMAIN log :
           /\ log[i] = Rd(oldmode)
           /\ (i < Len(log) \/ pc = "setPWMFreq_sleep")

C9_Witness ==
  /\ op = "setPWMFreq" /\ pc = "idle" /\ ret = "false"
  /\ log[Len(log)] = Req(DefaultAddr, 0)
  /\ oldmode = 0

\* C10: begin() returns true exactly when reset() succeeds and the following
\* setPWMFreq(1000) succeeds; when the reset write is not acknowledged,
\* begin() returns false after that single write, with no operation of
\* setPWMFreq.
C10_Begin ==
  (pc = "idle" /\ op = "begin") =>
    LET resetOk == log[1].n = 0
        freqOk  == /\ arg.freq = 1000
                   /\ AllOk(FreqLog)
                   /\ Len(BusOps(FreqLog)) = 7
                   /\ IsWrite(log[Len(log)], PCA9685_MODE1)
    IN /\ IsWrite(log[1], PCA9685_MODE1)
       /\ ret = RetOf(resetOk /\ freqOk)
       /\ ~resetOk => Len(log) = 1 /\ ret = "false"

C10_Witness ==
  /\ pc = "idle" /\ op = "begin" /\ ret = "false"
  /\ Len(log) = 1 /\ log[1].n # 0

----------------------------------------------------------------------------
(* Properties of setPWM *)

\* C11: for every channel 0..15 and on, off in 0..4096, setPWM makes one
\* transmission of the five bytes LED0_ON_L + 4*channel, on mod 256,
\* on div 256, off mod 256, off div 256, from which low + 256*high gives
\* back each tick value, and returns true exactly when the end status is 0.
C11_SetPWMBytes ==
  (pc = "idle" /\ op = "setPWM" /\ arg.num \in Channels
     /\ arg.on \in 0..4096 /\ arg.off \in 0..4096) =>
    /\ Len(log) = 1
    /\ log[1].k = "tx"
    /\ log[1].bytes = << LED0_ON_L + 4 * arg.num,
                         arg.on % 256, arg.on \div 256,
                         arg.off % 256, arg.off \div 256 >>
    /\ \A i \in 1..5 : log[1].bytes[i] \in 0..255
    /\ log[1].bytes[2] + 256 * log[1].bytes[3] = arg.on
    /\ log[1].bytes[4] + 256 * log[1].bytes[5] = arg.off
    /\ ret = RetOf(log[1].n = 0)

C11_Witness ==
  /\ pc = "idle" /\ op = "setPWM" /\ ret = "true"
  /\ arg.num = 15 /\ arg.on = 4096 /\ arg.off = 257
  /\ log[1].bytes = <<66, 0, 16, 1, 1>>

----------------------------------------------------------------------------
(* Further properties of setPWMFreq *)

\* setPWMFreq has made its first register write; it is the fourth event of
\* FreqLog, after the address phase, the request and the read of old
SleepWritten == InFreq /\ Len(FreqLog) >= 4

C13_PrescaleExact ==
  \A i \in DOMAIN log :
    (InFreq /\ IsWrite(log[i], PCA9685_PRESCALE)) =>
      log[i].bytes[2] = (500000000 - 36864 * arg.freq) \div (73728 * arg.freq)

\* C14: when the sleep write succeeds and the PRESCALE write or the write
\* restoring old fails, setPWMFreq returns false and the last value
\* successfully written to MODE1 has the sleep bit set: nothing is rolled
\* back.
C14_NoRollback ==
  (/\ InFreq /\ pc = "idle"
   /\ Len(FreqLog) >= 5
   /\ FreqLog[4].n = 0
   /\ \E i \in {5, 6} \cap DOMAIN FreqLog : FreqLog[i].k = "tx" /\ FreqLog[i].n # 0) =>
    /\ ret = "false"
    /\ Bit(LastMode1(log), 4) = 1
    /\ FreqLog[Len(FreqLog)].n # 0

C14_Witness ==
  /\ op = "setPWMFreq" /\ pc = "idle" /\ ret = "false"
  /\ oldmode = 0
  /\ Len(log) = 6
  /\ log[4] = Tx(DefaultAddr, <<PCA9685_MODE1, 16>>, 0)
  /\ IsWrite(log[6], PCA9685_MODE1) /\ log[6].n # 0

\* C15: when the initial read of MODE1 fails (address phase not acknowledged,
\* or no byte available), setPWMFreq returns false and has made no register
\* write: the failed read is its last bus operation.
C15_ReadFailNoWrite ==
  (/\ InFreq /\ FreqLog # <<>>
   /\ \/ FreqLog[1].n # 0
      \/ Len(FreqLog) >= 2 /\ FreqLog[2].n = 0) =>
    /\ pc = "idle" /\ ret = "false"
    /\ FreqLog[1].k = "txhold"
    /\ Len(FreqLog) <= 2
    /\ \A j \in DOMAIN FreqLog : FreqLog[j].k # "tx"

C15_Witness ==
  /\ op = "setPWMFreq" /\ pc = "idle" /\ ret = "false"
  /\ log = << TxHold(DefaultAddr, <<PCA9685_MODE1>>, 2) >>

----------------------------------------------------------------------------
(* Further properties of setPin *)

\* C16: for every 16-bit duty value and both values of invert, the pair
\* setPin passes to setPWM is fully on (4096, 0), fully off (0, 4096) or
\* normal timing (on = 0, off in 1..4094); on and off are never both 4096.
C16_PinPairs ==
  PinDone =>
    /\ Len(pwmCalls) = 1
    /\ LET c == pwmCalls[1] IN
       /\ \/ c.on = 4096 /\ c.off = 0
          \/ c.on = 0 /\ c.off = 4096
          \/ c.on = 0 /\ c.off \in 1..4094
       /\ ~(c.on = 4096 /\ c.off = 4096)

C16_Witness ==
  /\ PinDone /\ arg.invert /\ arg.val = 4096
  /\ pwmCalls[1].on = 0 /\ pwmCalls[1].off = 4096

\* C17: for every channel 0..15 and duty value 0..4095, setPin with
\* invert = true makes the setPWM call that setPin makes for the same
\* channel, 4095 - dutyValue and invert = false.
C17_InvertReflects ==
  (PinDone /\ arg.invert /\ arg.val \in 0..4095 /\ arg.num \in Channels) =>
    LET plain == PinOnOff(4095 - arg.val, FALSE) IN
    pwmCalls = << [num |-> arg.num, on |-> plain.on, off |-> plain.off] >>

C17_Witness ==
  /\ PinDone /\ arg.invert /\ arg.val = 4095 /\ arg.num = 7
  /\ pwmCalls = << [num |-> 7, on |-> 0, off |-> 4096] >>

----------------------------------------------------------------------------
(* Auto-increment over sequences of public operations *)

\* the registers a transmission <<a, d1, ..., dn>> writes
TouchedRegs(e) == { U8(e.bytes[1] + j - 2) : j \in 2 .. Len(e.bytes) }

\* when setPWMFreq (or begin) has returned success, the last value written
\* to MODE1 has the auto-increment bit set
AutoIncOnSuccess == (pc = "idle" /\ InFreq /\ ret = "true") => autoInc = 1

\* when reset() has returned success, it has written 0x80 to MODE1, and the
\* last value written to MODE1 has the auto-increment bit clear
AutoIncOffOnReset ==
  (pc = "idle" /\ op = "reset" /\ ret = "true") =>
    /\ log[1] = Tx(DefaultAddr, <<PCA9685_MODE1, 128>>, 0)
    /\ autoInc = 0

\* entering and running setPWM or setPin for a channel 0..15 writes neither
\* MODE1 nor PRESCALE and leaves the last value written to MODE1 as it was
PWMKeepsMode1 ==
  (op' \in {"setPWM", "setPin"} /\ arg'.num \in Channels) =>
    /\ autoInc' = autoInc
    /\ \A i \in DOMAIN log' :
         log'[i].k = "tx" =>
           TouchedRegs(log'[i]) \cap {PCA9685_MODE1, PCA9685_PRESCALE} = {}

\* inside setPWMFreq, the writes to MODE1 before the last one carry the
\* auto-increment bit of the byte read
AutoIncCopied ==
  (InFreq /\ pc \in {"setPWMFreq_prescale", "setPWMFreq_restore", "setPWMFreq_autoinc"}) =>
    autoInc = Bit(oldmode, 5)

\* once the reset of begin() has succeeded, auto-increment is off until the
\* setPWMFreq of that begin() has succeeded
AutoIncOffUntilSuccess ==
  (op = "begin" /\ log # <<>> /\ log[1].n = 0 /\ ~(pc = "idle" /\ ret = "true")) =>
    autoInc = 0

\* C18 as stated: after a successful setPWMFreq (or begin) the last value
\* written to MODE1 has auto-increment set, until the next reset or
\* setPWMFreq begins; setPWM and setPin write neither MODE1 nor PRESCALE;
\* reset writes 0x80 and auto-increment is then off until setPWMFreq
\* succeeds again.
C18_Original ==
  /\ []AutoIncOnSuccess
  /\ []AutoIncOffOnReset
  /\ []AutoIncOffUntilSuccess
  /\ [][PWMKeepsMode1]_vars

\* C18 (amended): after a successful setPWMFreq (or begin) the last value
\* written to MODE1 has auto-increment set, until the next reset or
\* setPWMFreq begins; setPWM and setPin write neither MODE1 nor PRESCALE for
\* channels 0..15; a reset whose write succeeds writes 0x80, so that the
\* last value written has auto-increment off until the next reset or
\* setPWMFreq begins; the writes of setPWMFreq before its last one carry the
\* auto-increment bit of the byte it read.
C18_AutoIncrement ==
  /\ []AutoIncOnSuccess
  /\ []AutoIncOffOnReset
  /\ []AutoIncCopied
  /\ [][PWMKeepsMode1]_vars

C18_Witness ==
  /\ pc = "idle" /\ op = "setPin" /\ ret = "true"
  /\ autoInc = 1

====
